---- MODULE Spec2Model ----
(***************************************************************************)
(* Model of FLAMESEMUV0.cpp: the Memory bus (two aliased big-endian RAM    *)
(* regions and three memory-mapped registers), the Video / Audio / Input   *)
(* peripherals it calls, and the WiiEmulator main loop.                    *)
(*                                                                         *)
(* A uint32_t is a record [hi, lo] of its two 16-bit halves                *)
(* (value = hi * 65536 + lo), because the addresses and values of the     *)
(* program (0x80000000, 0xDEADBEEF) do not fit the model checker's         *)
(* integers.  Offsets into the RAM vectors are below 2^26 and are plain    *)
(* naturals.                                                               *)
(***************************************************************************)
EXTENDS Integers, Sequences, FiniteSets

VARIABLES
    memory,     \* the Memory object: mem1, mem2, video, audio, input, videoBgColor, audioFreqValue
    videos,     \* the Video objects:  id -> [bgColor]
    audios,     \* the Audio objects:  id -> [frequency]
    inputs,     \* the Input objects:  id -> [buttonState]
    pc,         \* position of main() / WiiEmulator::run()
    running,    \* WiiEmulator::running
    colorCycle, \* run(): uint32_t colorCycle
    toneFreq,   \* run(): int toneFreq
    audioOn,    \* run(): static bool audioOn
    spacePressed, \* run(): static bool spacePressed
    memTestDone,  \* run(): static bool memTestDone
    testRead,   \* run(): uint32_t testRead of the memory test
    polled,     \* the events SDL_PollEvent handed to run()'s last input.update()
    ticks       \* number of completed iterations of the main loop

vars == <<memory, videos, audios, inputs, pc, running, colorCycle, toneFreq,
          audioOn, spacePressed, memTestDone, testRead, polled, ticks>>

runVars == <<pc, running, colorCycle, toneFreq, audioOn, spacePressed,
             memTestDone, testRead, ticks>>

(***************************************************************************)
(* Bounds of the model.                                                    *)
(***************************************************************************)
MaxEvents == 2   \* events pending in the SDL queue when Input::update() is called
MaxTicks == 3    \* iterations of the main loop that are explored

(***************************************************************************)
(* uint32_t arithmetic on [hi, lo] records.                                *)
(***************************************************************************)
U32(h, l) == [hi |-> h, lo |-> l]

FromNat(n) == [hi |-> (n \div 65536) % 65536, lo |-> n % 65536]

ToNat(u) == u.hi * 65536 + u.lo

RECURSIVE BitAnd(_, _)
BitAnd(a, b) ==
    IF a = 0 \/ b = 0 THEN 0
    ELSE (a % 2) * (b % 2) + 2 * BitAnd(a \div 2, b \div 2)

RECURSIVE BitOr(_, _)
BitOr(a, b) ==
    IF a = 0 THEN b
    ELSE IF b = 0 THEN a
    ELSE (IF a % 2 = 1 \/ b % 2 = 1 THEN 1 ELSE 0) + 2 * BitOr(a \div 2, b \div 2)

U32And(a, b) == [hi |-> BitAnd(a.hi, b.hi), lo |-> BitAnd(a.lo, b.lo)]

U32Or(a, b) == [hi |-> BitOr(a.hi, b.hi), lo |-> BitOr(a.lo, b.lo)]

U32Not(a) == [hi |-> 65535 - a.hi, lo |-> 65535 - a.lo]

U32Add(a, b) ==
    LET l == a.lo + b.lo
    IN  [hi |-> (a.hi + b.hi + l \div 65536) % 65536, lo |-> l % 65536]

U32Sub(a, b) == U32Add(a, U32Add(U32Not(b), U32(0, 1)))

U32Lt(a, b) == a.hi < b.hi \/ (a.hi = b.hi /\ a.lo < b.lo)

U32Ge(a, b) == ~U32Lt(a, b)

Zero32 == U32(0, 0)

(***************************************************************************)
(* Program constants.                                                      *)
(***************************************************************************)
MEM1_SIZE == 24 * 1024 * 1024

MEM2_SIZE == 64 * 1024 * 1024

REG_VIDEO_BG_COLOR == U32(\h0D00, \h0000)

REG_INPUT_STATE == U32(\h0D00, \h0004)

REG_AUDIO_FREQ == U32(\h0D00, \h0008)

MEM1_BASE == U32(\h8000, 0)

MEM1_ALIAS == U32(\hC000, 0)

MEM2_BASE == U32(\h9000, 0)

MEM2_ALIAS == U32(\hD000, 0)

NULL == "nullptr"

(***************************************************************************)
(* Memory::read32 / Memory::write32: address classification.               *)
(***************************************************************************)
InWindow(address, base, size) ==
    U32Ge(address, base) /\ U32Lt(address, U32Add(base, FromNat(size)))

InMem1FirstWindowOnly(address) == InWindow(address, MEM1_BASE, MEM1_SIZE)

InMem1(address) ==
    InWindow(address, MEM1_BASE, MEM1_SIZE) \/ InWindow(address, MEM1_ALIAS, MEM1_SIZE)

InMem2(address) ==
    InWindow(address, MEM2_BASE, MEM2_SIZE) \/ InWindow(address, MEM2_ALIAS, MEM2_SIZE)

\* uint32_t offset = address & (SIZE - 1);
MaskOffset(address, size) == ToNat(U32And(address, FromNat(size - 1)))

\* if (offset + 3 < SIZE) in read32
ReadSpanOk(offset, size) == offset + 3 < size

WriteSpanOkFirstByteOnly(offset, size) == offset < size

\* if (offset + 3 < SIZE) in write32
WriteSpanOk(offset, size) == offset + 3 < size

(***************************************************************************)
(* Big-endian assembly and disassembly of a word.                          *)
(***************************************************************************)
\* (value >> shift) & 0xFF for shift in {24, 16, 8, 0}
ByteOf(value, shift) ==
    CASE shift = 24 -> value.hi \div 256
      [] shift = 16 -> value.hi % 256
      [] shift = 8  -> value.lo \div 256
      [] shift = 0  -> value.lo % 256

Pack32LE(b0, b1, b2, b3) == U32(b3 * 256 + b2, b1 * 256 + b0)

\* (b0 << 24) | (b1 << 16) | (b2 << 8) | b3
Pack32(b0, b1, b2, b3) == U32(b0 * 256 + b1, b2 * 256 + b3)

Load32(mem, offset) ==
    Pack32(mem[offset], mem[offset + 1], mem[offset + 2], mem[offset + 3])

Store32LE(mem, offset, value) ==
    [x \in DOMAIN mem |->
        IF x = offset THEN ByteOf(value, 0)
        ELSE IF x = offset + 1 THEN ByteOf(value, 8)
        ELSE IF x = offset + 2 THEN ByteOf(value, 16)
        ELSE IF x = offset + 3 THEN ByteOf(value, 24)
        ELSE mem[x]]

Store32(mem, offset, value) ==
    [x \in DOMAIN mem |->
        IF x = offset THEN ByteOf(value, 24)
        ELSE IF x = offset + 1 THEN ByteOf(value, 16)
        ELSE IF x = offset + 2 THEN ByteOf(value, 8)
        ELSE IF x = offset + 3 THEN ByteOf(value, 0)
        ELSE mem[x]]

(***************************************************************************)
(* Inputs explored: the addresses, values, peripheral objects and SDL      *)
(* events the operations are called with.                                  *)
(***************************************************************************)
Mem1Addrs ==
    { U32(\h8000, \h0000),      \* first word, primary window
      U32(\hC000, \h0000),      \* first word, alias window
      U32(\h8000, \h0004),      \* second word, primary window
      U32(\hC000, \h0002),      \* unaligned, overlaps the first and the second word
      U32(\h8080, \h0000),      \* window offset 0x800000 (bit 23 of the offset set)
      U32(\h817F, \hFFFC),      \* last aligned word of the primary window
      U32(\h817F, \hFFFF),      \* last byte of the primary window
      U32(\hC17F, \hFFFF) }     \* last byte of the alias window

Mem2Addrs ==
    { U32(\h9000, \h0000),      \* first word, primary window
      U32(\hD000, \h0000),      \* first word, alias window
      U32(\hD3FF, \hFFFC),      \* last aligned word of the alias window
      U32(\h93FF, \hFFFF),      \* last byte of the primary window
      U32(\hD3FF, \hFFFF) }     \* last byte of the alias window

RegAddrs == {REG_VIDEO_BG_COLOR, REG_INPUT_STATE, REG_AUDIO_FREQ}

OtherAddrs ==
    { U32(\h0000, \h0000),      \* nothing mapped
      U32(\h0D00, \h0001),      \* one past a register address
      U32(\h8180, \h0000),      \* first address after MEM1's primary window
      U32(\hD400, \h0000) }     \* first address after MEM2's alias window

Addrs == Mem1Addrs \cup Mem2Addrs \cup RegAddrs \cup OtherAddrs

\* the addresses used where the peripherals, not the RAM, are explored
IoAddrs == RegAddrs \cup OtherAddrs \cup {MEM1_BASE}

Values == { U32(\hDEAD, \hBEEF), U32(\h1122, \h33FF) }

Videos == {"video", "video2"}

Audios == {"audio", "audio2"}

Inputs == {"input", "input2"}

KeySyms == {"SDLK_UP", "SDLK_DOWN", "SDLK_LEFT", "SDLK_RIGHT",
            "SDLK_a", "SDLK_b", "SDLK_SPACE", "SDLK_ESCAPE"}

QuitEvent == [type |-> "SDL_QUIT", sym |-> "none"]

KeyDown(k) == [type |-> "SDL_KEYDOWN", sym |-> k]

KeyUp(k) == [type |-> "SDL_KEYUP", sym |-> k]

Events == {QuitEvent} \cup {KeyDown(k) : k \in KeySyms} \cup {KeyUp(k) : k \in KeySyms}

\* the events a direct caller of Input::update() is given
BusEvents == {KeyDown("SDLK_UP"), KeyUp("SDLK_UP")}

Batches(E) == UNION {[1..n -> E] : n \in 0..MaxEvents}

(***************************************************************************)
(* The bytes of mem1 / mem2 the explored addresses can reach; every other  *)
(* byte of the vectors keeps its initial 0.                                *)
(***************************************************************************)
Span(offset, size) == {x \in offset..(offset + 3) : x < size}

Mem1Tracked ==
    UNION {Span(MaskOffset(a, MEM1_SIZE), MEM1_SIZE) : a \in {b \in Addrs : InMem1(b)}}

Mem2Tracked ==
    UNION {Span(MaskOffset(a, MEM2_SIZE), MEM2_SIZE) : a \in {b \in Addrs : InMem2(b)}}

(***************************************************************************)
(* Peripherals.                                                            *)
(***************************************************************************)
Video_setBackgroundColor(v, color) == [v EXCEPT !.bgColor = color]

\* the uint32_t -> double conversion at the call site is exact
Audio_setToneFrequency(a, freq) == [a EXCEPT !.frequency = freq]

Input_getButtonState(i) == i.buttonState

Input_shouldQuit(i) == U32And(i.buttonState, U32(\h8000, 0)) # Zero32

KeyBit(sym) ==
    CASE sym = "SDLK_UP"    -> U32(0, 1)
      [] sym = "SDLK_DOWN"  -> U32(0, 2)
      [] sym = "SDLK_LEFT"  -> U32(0, 4)
      [] sym = "SDLK_RIGHT" -> U32(0, 8)
      [] sym = "SDLK_a"     -> U32(0, 16)
      [] sym = "SDLK_b"     -> U32(0, 32)
      [] sym = "SDLK_SPACE" -> U32(0, 64)
      [] OTHER              -> Zero32     \* no case of the switch: no effect

\* one iteration of the while (SDL_PollEvent(&event)) loop
HandleEvent(buttonState, event) ==
    IF event.type = "SDL_QUIT" THEN U32Or(buttonState, U32(\h8000, 0))
    ELSE IF event.type = "SDL_KEYDOWN" THEN U32Or(buttonState, KeyBit(event.sym))
    ELSE IF event.type = "SDL_KEYUP" THEN U32And(buttonState, U32Not(KeyBit(event.sym)))
    ELSE buttonState

RECURSIVE PollAll(_, _)
PollAll(buttonState, events) ==
    IF events = <<>> THEN buttonState
    ELSE PollAll(HandleEvent(buttonState, Head(events)), Tail(events))

Input_update(i, events) == [i EXCEPT !.buttonState = PollAll(i.buttonState, events)]

(***************************************************************************)
(* Memory.  A "world" w is the Memory object with the peripheral objects   *)
(* its pointers may refer to: [memory, videos, audios, inputs].            *)
(***************************************************************************)
World == [memory |-> memory, videos |-> videos, audios |-> audios, inputs |-> inputs]

\* Memory::Memory(), Video::Video(), Audio::Audio(), Input::Input()
NewMemory ==
    [mem1 |-> [o \in Mem1Tracked |-> 0],
     mem2 |-> [o \in Mem2Tracked |-> 0],
     videoBgColor |-> Zero32,
     audioFreqValue |-> Zero32,
     video |-> NULL,
     audio |-> NULL,
     input |-> NULL]

NewVideo == [bgColor |-> Zero32]

NewAudio == [frequency |-> FromNat(440)]

NewInput == [buttonState |-> Zero32]

connectVideoIfUnbound(m, v) == IF m.video = NULL THEN [m EXCEPT !.video = v] ELSE m

connectVideo(m, v) == [m EXCEPT !.video = v]

connectAudio(m, a) == [m EXCEPT !.audio = a]

connectInput(m, i) == [m EXCEPT !.input = i]

RegMatchWordMasked(address, reg) == U32And(address, U32(\hFFFF, \hFFFC)) = reg

\* address == REG_...: exact comparison
RegMatch(address, reg) == address = reg

\* return input ? input->getButtonState() : 0;
ReadInputState(w) ==
    IF w.memory.input # NULL
    THEN Input_getButtonState(w.inputs[w.memory.input])
    ELSE Zero32

read32(w, address) ==
    LET m == w.memory IN
    IF InMem1(address) THEN
        LET offset == MaskOffset(address, MEM1_SIZE) IN
        IF ReadSpanOk(offset, MEM1_SIZE) THEN Load32(m.mem1, offset) ELSE Zero32
    ELSE IF InMem2(address) THEN
        LET offset == MaskOffset(address, MEM2_SIZE) IN
        IF ReadSpanOk(offset, MEM2_SIZE) THEN Load32(m.mem2, offset) ELSE Zero32
    ELSE IF RegMatch(address, REG_VIDEO_BG_COLOR) THEN m.videoBgColor
    ELSE IF RegMatch(address, REG_INPUT_STATE) THEN ReadInputState(w)
    ELSE IF RegMatch(address, REG_AUDIO_FREQ) THEN m.audioFreqValue
    ELSE Zero32

\* The result r of a write is the world after the call, with r.calls the hook
\* calls made, in order.
NoCalls(w) ==
    [memory |-> w.memory, videos |-> w.videos, audios |-> w.audios,
     inputs |-> w.inputs, calls |-> <<>>]

WriteVideoBgColorWhenBound(r, value) ==
    LET v == r.memory.video IN
    IF v # NULL
    THEN [r EXCEPT
            !.memory.videoBgColor = value,
            !.videos[v] = Video_setBackgroundColor(r.videos[v], value),
            !.calls = Append(r.calls, [hook |-> "setBackgroundColor", on |-> v, arg |-> value])]
    ELSE r

\* videoBgColor = value; if (video) video->setBackgroundColor(value);
WriteVideoBgColor(r, value) ==
    LET v == r.memory.video IN
    IF v # NULL
    THEN [r EXCEPT
            !.memory.videoBgColor = value,
            !.videos[v] = Video_setBackgroundColor(r.videos[v], value),
            !.calls = Append(r.calls, [hook |-> "setBackgroundColor", on |-> v, arg |-> value])]
    ELSE [r EXCEPT !.memory.videoBgColor = value]

\* audioFreqValue = value; if (audio) audio->setToneFrequency((double)value);
WriteAudioFreq(r, value) ==
    LET a == r.memory.audio IN
    IF a # NULL
    THEN [r EXCEPT
            !.memory.audioFreqValue = value,
            !.audios[a] = Audio_setToneFrequency(r.audios[a], value),
            !.calls = Append(r.calls, [hook |-> "setToneFrequency", on |-> a, arg |-> value])]
    ELSE [r EXCEPT !.memory.audioFreqValue = value]

WriteInputStateStored(r, value) ==
    LET i == r.memory.input IN
    IF i # NULL THEN [r EXCEPT !.inputs[i].buttonState = value] ELSE r

\* SDL_Log("Ignoring write to input state register");
WriteInputState(r, value) == r

write32(w, address, value) ==
    LET r == NoCalls(w) IN
    IF InMem1(address) THEN
        LET offset == MaskOffset(address, MEM1_SIZE) IN
        IF WriteSpanOk(offset, MEM1_SIZE)
        THEN [r EXCEPT !.memory.mem1 = Store32(r.memory.mem1, offset, value)]
        ELSE r
    ELSE IF InMem2(address) THEN
        LET offset == MaskOffset(address, MEM2_SIZE) IN
        IF WriteSpanOk(offset, MEM2_SIZE)
        THEN [r EXCEPT !.memory.mem2 = Store32(r.memory.mem2, offset, value)]
        ELSE r
    ELSE IF RegMatch(address, REG_VIDEO_BG_COLOR) THEN WriteVideoBgColor(r, value)
    ELSE IF RegMatch(address, REG_INPUT_STATE) THEN WriteInputState(r, value)
    ELSE IF RegMatch(address, REG_AUDIO_FREQ) THEN WriteAudioFreq(r, value)
    ELSE r

(***************************************************************************)
(* Initial state: every object freshly constructed, main() not yet run.    *)
(***************************************************************************)
Init ==
    /\ memory = NewMemory
    /\ videos = [v \in Videos |-> NewVideo]
    /\ audios = [a \in Audios |-> NewAudio]
    /\ inputs = [i \in Inputs |-> NewInput]
    /\ pc = "main"
    /\ running = FALSE
    /\ colorCycle = Zero32
    /\ toneFreq = 440
    /\ audioOn = FALSE
    /\ spacePressed = FALSE
    /\ memTestDone = FALSE
    /\ testRead = Zero32
    /\ polled = <<>>
    /\ ticks = 0

(***************************************************************************)
(* The bus driven by an arbitrary client: any sequence of calls of the     *)
(* public operations of Memory and Input.                                  *)
(***************************************************************************)
Write32(address, value) ==
    LET r == write32(World, address, value) IN
    /\ memory' = r.memory
    /\ videos' = r.videos
    /\ audios' = r.audios
    /\ inputs' = r.inputs
    /\ UNCHANGED <<runVars, polled>>

ConnectVideo(v) ==
    /\ memory' = connectVideo(memory, v)
    /\ UNCHANGED <<videos, audios, inputs, runVars, polled>>

ConnectAudio(a) ==
    /\ memory' = connectAudio(memory, a)
    /\ UNCHANGED <<videos, audios, inputs, runVars, polled>>

ConnectInput(i) ==
    /\ memory' = connectInput(memory, i)
    /\ UNCHANGED <<videos, audios, inputs, runVars, polled>>

InputUpdate(i, events) ==
    /\ inputs' = [inputs EXCEPT ![i] = Input_update(inputs[i], events)]
    /\ UNCHANGED <<memory, videos, audios, runVars, polled>>

Next ==
    \/ \E a \in IoAddrs, v \in Values : Write32(a, v)
    \/ \E v \in Videos \cup {NULL} : ConnectVideo(v)
    \/ \E a \in Audios \cup {NULL} : ConnectAudio(a)
    \/ \E i \in Inputs \cup {NULL} : ConnectInput(i)
    \/ \E i \in Inputs, events \in Batches(BusEvents) : InputUpdate(i, events)

Spec == Init /\ [][Next]_vars

(***************************************************************************)
(* The bus driven by a client that explores the RAM regions, with no       *)
(* peripheral bound.                                                       *)
(***************************************************************************)
RamNext == \E a \in Addrs, v \in Values : Write32(a, v)

RamSpec == Init /\ [][RamNext]_vars

(***************************************************************************)
(* main() and WiiEmulator::run().  The emulator owns the objects "video",  *)
(* "audio" and "input".                                                    *)
(***************************************************************************)
Pressed(buttons, bit) == U32And(buttons, bit) # Zero32

Min(a, b) == IF a < b THEN a ELSE b

Max(a, b) == IF a > b THEN a ELSE b

\* WiiEmulator::init() succeeds: the three peripherals are connected
MainInit ==
    /\ pc = "main"
    /\ memory' = connectInput(connectAudio(connectVideo(memory, "video"), "audio"), "input")
    /\ pc' = "run"
    /\ UNCHANGED <<videos, audios, inputs, running, colorCycle, toneFreq, audioOn,
                   spacePressed, memTestDone, testRead, polled, ticks>>

\* WiiEmulator::init() fails (SDL_Init, Video::init or Audio::init): main returns 1
MainInitFail ==
    /\ pc = "main"
    /\ pc' = "exit"
    /\ UNCHANGED <<memory, videos, audios, inputs, running, colorCycle, toneFreq, audioOn,
                   spacePressed, memTestDone, testRead, polled, ticks>>

RunStart ==
    /\ pc = "run"
    /\ running' = TRUE
    /\ colorCycle' = Zero32
    /\ toneFreq' = 440
    /\ pc' = "update"
    /\ UNCHANGED <<memory, videos, audios, inputs, audioOn, spacePressed, memTestDone,
                   testRead, polled, ticks>>

\* while (running) { input.update();
RunUpdate(events) ==
    /\ pc = "update"
    /\ running
    /\ ticks < MaxTicks
    /\ inputs' = [inputs EXCEPT !["input"] = Input_update(inputs["input"], events)]
    /\ polled' = events
    /\ pc' = "quit_check"
    /\ UNCHANGED <<memory, videos, audios, running, colorCycle, toneFreq, audioOn,
                   spacePressed, memTestDone, testRead, ticks>>

\* if (input.shouldQuit()) { running = false; break; }
RunQuitCheck ==
    /\ pc = "quit_check"
    /\ IF Input_shouldQuit(inputs["input"])
       THEN running' = FALSE /\ pc' = "shutdown"
       ELSE running' = running /\ pc' = "read_input"
    /\ UNCHANGED <<memory, videos, audios, inputs, colorCycle, toneFreq, audioOn,
                   spacePressed, memTestDone, testRead, polled, ticks>>

\* buttons = memory.read32(REG_INPUT_STATE) and the demo variables' update
RunReadInput ==
    /\ pc = "read_input"
    /\ LET buttons == read32(World, REG_INPUT_STATE)
           c1 == IF Pressed(buttons, U32(0, 1)) THEN U32Add(colorCycle, U32(\h0100, 0)) ELSE colorCycle
           c2 == IF Pressed(buttons, U32(0, 2)) THEN U32Sub(c1, U32(\h0100, 0)) ELSE c1
           c3 == IF Pressed(buttons, U32(0, 4)) THEN U32Add(c2, U32(\h0001, 0)) ELSE c2
           c4 == IF Pressed(buttons, U32(0, 8)) THEN U32Sub(c3, U32(\h0001, 0)) ELSE c3
           t1 == IF Pressed(buttons, U32(0, 16)) THEN Min(toneFreq + 10, 2000) ELSE toneFreq
           t2 == IF Pressed(buttons, U32(0, 32)) THEN Max(t1 - 10, 100) ELSE t1
           space == Pressed(buttons, U32(0, 64))
       IN  /\ colorCycle' = c4
           /\ toneFreq' = t2
           /\ IF space /\ ~spacePressed
              THEN audioOn' = ~audioOn /\ spacePressed' = TRUE
              ELSE IF ~space
              THEN audioOn' = audioOn /\ spacePressed' = FALSE
              ELSE audioOn' = audioOn /\ spacePressed' = spacePressed
    /\ pc' = "write_regs"
    /\ UNCHANGED <<memory, videos, audios, inputs, running, memTestDone, testRead,
                   polled, ticks>>

\* memory.write32(REG_VIDEO_BG_COLOR, colorCycle);
\* memory.write32(REG_AUDIO_FREQ, audioOn ? toneFreq : 0);
RunWriteRegs ==
    /\ pc = "write_regs"
    /\ LET r1 == write32(World, REG_VIDEO_BG_COLOR, colorCycle)
           r2 == write32(r1, REG_AUDIO_FREQ, IF audioOn THEN FromNat(toneFreq) ELSE Zero32)
       IN  /\ memory' = r2.memory
           /\ videos' = r2.videos
           /\ audios' = r2.audios
    /\ pc' = "mem_test"
    /\ UNCHANGED <<inputs, running, colorCycle, toneFreq, audioOn, spacePressed,
                   memTestDone, testRead, polled, ticks>>

\* if (!memTestDone) { write32(0x80000000, 0xDEADBEEF); testRead = read32(0x80000000); ... }
RunMemTest ==
    /\ pc = "mem_test"
    /\ IF ~memTestDone
       THEN LET r == write32(World, MEM1_BASE, U32(\hDEAD, \hBEEF)) IN
            /\ memory' = r.memory
            /\ testRead' = read32(r, MEM1_BASE)
            /\ memTestDone' = TRUE
       ELSE UNCHANGED <<memory, testRead, memTestDone>>
    /\ pc' = "render"
    /\ UNCHANGED <<videos, audios, inputs, running, colorCycle, toneFreq, audioOn,
                   spacePressed, polled, ticks>>

\* video.render(), the frame pacing and the FPS log: no state of the model; next iteration
RunRender ==
    /\ pc = "render"
    /\ ticks' = ticks + 1
    /\ pc' = "update"
    /\ UNCHANGED <<memory, videos, audios, inputs, running, colorCycle, toneFreq, audioOn,
                   spacePressed, memTestDone, testRead, polled>>

\* emulator.shutdown(); return 0;
MainShutdown ==
    /\ pc = "shutdown"
    /\ pc' = "exit"
    /\ UNCHANGED <<memory, videos, audios, inputs, running, colorCycle, toneFreq, audioOn,
                   spacePressed, memTestDone, testRead, polled, ticks>>

RunNext ==
    \/ MainInit
    \/ MainInitFail
    \/ RunStart
    \/ \E events \in Batches(Events) : RunUpdate(events)
    \/ RunQuitCheck
    \/ RunReadInput
    \/ RunWriteRegs
    \/ RunMemTest
    \/ RunRender
    \/ MainShutdown

RunSpec == Init /\ [][RunNext]_vars

(***************************************************************************)
(* The properties.  Each operation's property is stated of every reachable *)
(* state as the state the operation is called in.                          *)
(***************************************************************************)
DEADBEEF == U32(\hDEAD, \hBEEF)

\* the offset of a RAM address within its window: address - window base
WindowBase(a) ==
    CASE a.hi \in \h8000..\h817F -> MEM1_BASE
      [] a.hi \in \hC000..\hC17F -> MEM1_ALIAS
      [] a.hi \in \h9000..\h93FF -> MEM2_BASE
      [] a.hi \in \hD000..\hD3FF -> MEM2_ALIAS

WindowOffset(a) == ToNat(U32Sub(a, WindowBase(a)))

RegionSize(a) == IF WindowBase(a) \in {MEM1_BASE, MEM1_ALIAS} THEN MEM1_SIZE ELSE MEM2_SIZE

RamAddrs == Mem1Addrs \cup Mem2Addrs

Offsets1 == {WindowOffset(a) : a \in Mem1Addrs}

Offsets2 == {WindowOffset(a) : a \in Mem2Addrs}

At(base, o) == U32Add(base, FromNat(o))

\* C1: whatever has been written through either window, a read at offset o of
\* the primary window returns what a read at offset o of the alias window
\* returns, for both RAM regions.
C1_AliasingEquivalence ==
    /\ \A o \in Offsets1 : read32(World, At(MEM1_BASE, o)) = read32(World, At(MEM1_ALIAS, o))
    /\ \A o \in Offsets2 : read32(World, At(MEM2_BASE, o)) = read32(World, At(MEM2_ALIAS, o))

\* both regions hold a word written before, visible through both windows
C1_Witness ==
    /\ read32(World, MEM1_ALIAS) = DEADBEEF
    /\ read32(World, MEM2_BASE) = U32(\h1122, \h33FF)

\* C2: write32(a, v) directly followed by read32(a) returns v, for every value
\* and every RAM address whose window offset is 4-aligned and in bounds.
C2_RoundTrip ==
    \A a \in RamAddrs, v \in Values :
        (WindowOffset(a) % 4 = 0 /\ WindowOffset(a) + 3 < RegionSize(a))
            => read32(write32(World, a, v), a) = v

\* the last aligned word of MEM1 was written and reads back
C2_Witness == read32(World, U32(\h817F, \hFFFC)) = DEADBEEF

\* C3: an in-bounds write32(a, v) leaves bits 31-24, 23-16, 15-8 and 7-0 of v
\* in the region's bytes offset .. offset + 3, offset = a & (size - 1); and
\* write32(0x80000000, 0xDEADBEEF) leaves DE AD BE EF in bytes 0..3 of MEM1.
C3_BigEndianLayout ==
    /\ \A a \in RamAddrs, v \in Values :
        LET size == RegionSize(a)
            offset == MaskOffset(a, size)
            r == write32(World, a, v)
            mem == IF size = MEM1_SIZE THEN r.memory.mem1 ELSE r.memory.mem2
        IN  offset + 3 < size =>
                /\ mem[offset]     = v.hi \div 256
                /\ mem[offset + 1] = v.hi % 256
                /\ mem[offset + 2] = v.lo \div 256
                /\ mem[offset + 3] = v.lo % 256
    /\ LET mem1 == write32(World, MEM1_BASE, DEADBEEF).memory.mem1
       IN  <<mem1[0], mem1[1], mem1[2], mem1[3]>> = <<\hDE, \hAD, \hBE, \hEF>>

\* bytes 0..3 of MEM1 hold DE AD BE EF
C3_Witness ==
    <<memory.mem1[0], memory.mem1[1], memory.mem1[2], memory.mem1[3]>> = <<222, 173, 190, 239>>

TailAddrs ==
    { At(MEM1_BASE, MEM1_SIZE - 1), At(MEM1_ALIAS, MEM1_SIZE - 1),
      At(MEM2_BASE, MEM2_SIZE - 1), At(MEM2_ALIAS, MEM2_SIZE - 1) }

\* C4: a write32 at the last byte address of any of the four RAM windows
\* changes no RAM byte and no stored register, and a read32 there returns 0.
C4_OutOfRangeSafety ==
    \A a \in TailAddrs, v \in Values :
        LET r == write32(World, a, v)
        IN  /\ r.memory = memory
            /\ read32(r, a) = Zero32
            /\ read32(World, a) = Zero32

\* the bytes next to the tail of MEM1 and both stored registers are non-zero
C4_Witness ==
    /\ memory.mem1[MEM1_SIZE - 1] = \hEF
    /\ memory.mem2[MEM2_SIZE - 1] = \hFF
    /\ memory.videoBgColor # Zero32
    /\ memory.audioFreqValue # Zero32

\* C10: a step write32(a, v) does not change what read32(b) returns, for any
\* two in-bounds addresses a, b of one window whose 4-byte spans do not overlap.
C10_NonInterference ==
    [][\A a \in RamAddrs, b \in RamAddrs, v \in Values :
        LET oa == WindowOffset(a)
            ob == WindowOffset(b)
        IN  ( /\ Write32(a, v)
              /\ WindowBase(a) = WindowBase(b)
              /\ oa + 3 < RegionSize(a)
              /\ ob + 3 < RegionSize(b)
              /\ (oa - ob >= 4 \/ ob - oa >= 4) )
            => read32(World', b) = read32(World, b)]_vars

Call(hook, on, arg) == [hook |-> hook, on |-> on, arg |-> arg]

\* C5: a write32 of v to the background-colour or tone-frequency register makes
\* a following read32 of it return v, and calls setBackgroundColor /
\* setToneFrequency with v exactly once on the bound peripheral, and calls
\* nothing when none is bound.
C5_RegisterSideEffects ==
    \A v \in Values :
        LET rv == write32(World, REG_VIDEO_BG_COLOR, v)
            ra == write32(World, REG_AUDIO_FREQ, v)
        IN  /\ read32(rv, REG_VIDEO_BG_COLOR) = v
            /\ rv.calls = IF memory.video # NULL
                          THEN <<Call("setBackgroundColor", memory.video, v)>>
                          ELSE <<>>
            /\ memory.video # NULL => rv.videos[memory.video].bgColor = v
            /\ read32(ra, REG_AUDIO_FREQ) = v
            /\ ra.calls = IF memory.audio # NULL
                          THEN <<Call("setToneFrequency", memory.audio, v)>>
                          ELSE <<>>
            /\ memory.audio # NULL => ra.audios[memory.audio].frequency = v

\* a bound video peripheral took a hook call with the stored value, and the
\* tone-frequency register holds a value written while no audio was bound
C5_Witness ==
    /\ memory.video # NULL
    /\ memory.videoBgColor = U32(\h1122, \h33FF)
    /\ videos[memory.video].bgColor = U32(\h1122, \h33FF)
    /\ memory.audio = NULL
    /\ memory.audioFreqValue = U32(\h1122, \h33FF)
    /\ \A a \in Audios : audios[a] = NewAudio

\* C6: a write32 to the input-state register changes nothing and calls no hook,
\* and a following read32 of it returns the bound input peripheral's button
\* state, or 0 when no input peripheral is bound.
C6_ProtectedRegister ==
    \A v \in Values :
        LET r == write32(World, REG_INPUT_STATE, v)
        IN  /\ r = NoCalls(World)
            /\ read32(r, REG_INPUT_STATE) =
                  IF memory.input # NULL THEN inputs[memory.input].buttonState ELSE Zero32

\* an input peripheral is bound and reports a pressed button
C6_Witness ==
    /\ memory.input # NULL
    /\ inputs[memory.input].buttonState = U32(0, 1)
    /\ \E i \in Inputs : inputs[i].buttonState = Zero32

InRamWindow(a) ==
    \/ a.hi \in \h8000..\h817F
    \/ a.hi \in \hC000..\hC17F
    \/ a.hi \in \h9000..\h93FF
    \/ a.hi \in \hD000..\hD3FF

\* C7: at an address in none of the four RAM windows and equal to none of the
\* three register addresses, read32 returns 0 and write32 changes nothing and
\* calls no hook.
C7_UnmappedAddress ==
    \A a \in Addrs, v \in Values :
        (~InRamWindow(a) /\ a \notin {REG_VIDEO_BG_COLOR, REG_INPUT_STATE, REG_AUDIO_FREQ})
            => /\ read32(World, a) = Zero32
               /\ write32(World, a, v) = NoCalls(World)

\* RAM and both stored registers are non-zero and every peripheral is bound
C7_Witness ==
    /\ memory.mem1[0] # 0
    /\ memory.videoBgColor # Zero32
    /\ memory.audioFreqValue # Zero32
    /\ memory.video # NULL /\ memory.audio # NULL /\ memory.input # NULL
    /\ inputs[memory.input].buttonState # Zero32

WithMemory(m) == [World EXCEPT !.memory = m]

\* C9: each kind has one binding; once connectVideo / connectAudio /
\* connectInput has replaced it, a register write calls the hook of the newly
\* bound peripheral only and leaves every other peripheral as it was; bound to
\* null, the write still stores the value and calls nothing, and a read of the
\* input-state register returns 0.
C9_Rebinding ==
    /\ memory.video \in Videos \cup {NULL}
    /\ memory.audio \in Audios \cup {NULL}
    /\ memory.input \in Inputs \cup {NULL}
    /\ \A p \in Videos \cup {NULL}, v \in Values :
        LET r == write32(WithMemory(connectVideo(memory, p)), REG_VIDEO_BG_COLOR, v)
        IN  /\ r.memory.videoBgColor = v
            /\ r.calls = IF p = NULL THEN <<>> ELSE <<Call("setBackgroundColor", p, v)>>
            /\ \A q \in Videos \ {p} : r.videos[q] = videos[q]
            /\ p # NULL => r.videos[p].bgColor = v
    /\ \A p \in Audios \cup {NULL}, v \in Values :
        LET r == write32(WithMemory(connectAudio(memory, p)), REG_AUDIO_FREQ, v)
        IN  /\ r.memory.audioFreqValue = v
            /\ r.calls = IF p = NULL THEN <<>> ELSE <<Call("setToneFrequency", p, v)>>
            /\ \A q \in Audios \ {p} : r.audios[q] = audios[q]
            /\ p # NULL => r.audios[p].frequency = v
    /\ \A p \in Inputs \cup {NULL} :
        read32(WithMemory(connectInput(memory, p)), REG_INPUT_STATE) =
            IF p = NULL THEN Zero32 ELSE inputs[p].buttonState

\* the video binding was replaced: the first peripheral keeps the value of the
\* call it took, the second one took the later call
C9_Witness ==
    /\ memory.video = "video2"
    /\ videos["video"].bgColor = DEADBEEF
    /\ videos["video2"].bgColor = U32(\h1122, \h33FF)
    /\ memory.videoBgColor = U32(\h1122, \h33FF)
    /\ memory.audio = "audio2"
    /\ audios["audio"].frequency = DEADBEEF
    /\ audios["audio2"].frequency = U32(\h1122, \h33FF)
    /\ memory.input = "input2"
    /\ inputs["input"].buttonState # inputs["input2"].buttonState

QuitRequested(events) ==
    \E k \in 1..Len(events) :
        events[k] = QuitEvent \/ events[k] = KeyDown("SDLK_ESCAPE")

\* C8: once input.update() has polled an ESC key-down or a window-close event,
\* the main loop leaves at that iteration's quit check with running false,
\* before any further read32 / write32.
C8_QuitControls ==
    QuitRequested(polled) =>
        \/ pc = "quit_check"
        \/ pc \in {"shutdown", "exit"} /\ ~running
====
